---- MODULE Spec2Model ----
(***************************************************************************)
(* Model of services/clip_service.py: the Flask handlers /embed, /compare  *)
(* and /health, the two image resolvers, and the cosine similarity.        *)
(* One request is followed from its arrival to its response, one source    *)
(* statement group per action.  Library calls are modelled by their        *)
(* outcome: a value or a raised exception (class and message).             *)
(***************************************************************************)
EXTENDS Integers, Sequences, FiniteSets, TLC

VARIABLES served, req, pc, data, img1, img2, emb1, emb2, resp, e, escaped, steps, prev

vars == <<served, req, pc, data, img1, img2, emb1, emb2, resp, e, escaped, steps, prev>>

(* Number of requests followed in one behaviour. *)
MaxRequests == 2

(* ---------------------------- values ----------------------------------- *)

Ok(v) == [ok |-> TRUE, val |-> v]
Raise(cls, msg) == [ok |-> FALSE, cls |-> cls, msg |-> msg]

(* Unbound local / response not yet produced. *)
None == <<>>

(* File contents that occur in the model: four PNG files (A, B, C and Z,    *)
(* the image the model embeds to the zero vector), a PNG whose pixel data  *)
(* is cut short, and an HTML page.                                         *)
ImageBytes == {"pngA", "pngB", "pngC", "pngZ", "pngTruncated"}

(* A base64 text: whether its padding is correct, and the bytes it encodes. *)
Base64Strs ==
    {[padded |-> TRUE, payload |-> b] : b \in {"pngA", "pngB", "pngZ", "pngTruncated", "html"}}
    \cup {[padded |-> FALSE, payload |-> "pngA"]}

(* The remote world: what each URL answers when the server is reached.     *)
Urls == {"http://down", "http://a", "http://c", "http://page", "http://404page", "http://404img"}
Reachable(url) == url # "http://down"
WebResponse(url) ==
    CASE url = "http://a"       -> [status_code |-> 200, content |-> "pngA"]
      [] url = "http://c"       -> [status_code |-> 200, content |-> "pngC"]
      [] url = "http://page"    -> [status_code |-> 200, content |-> "html"]
      [] url = "http://404page" -> [status_code |-> 404, content |-> "html"]
      [] url = "http://404img"  -> [status_code |-> 404, content |-> "pngB"]
      [] OTHER                  -> [status_code |-> 503, content |-> "html"]

(* requests.get(url, timeout=10): a connection error or timeout raises, any *)
(* HTTP answer (whatever its status code) is returned as a response.        *)
RequestsGet(url) ==
    {Raise("requests.ConnectionError", "HTTPConnectionPool: Max retries exceeded with url")}
    \cup (IF Reachable(url)
          THEN {Ok(WebResponse(url)),
                Raise("requests.Timeout", "HTTPConnectionPool: Read timed out. (read timeout=10)")}
          ELSE {})

(* base64.b64decode(s) *)
B64Decode(s) ==
    IF s.padded THEN Ok(s.payload) ELSE Raise("binascii.Error", "Incorrect padding")

(* Image.open(io.BytesIO(b)): identifies the file from its header, lazily. *)
ImageOpen(b) ==
    IF b \in ImageBytes
    THEN Ok([format |-> "PNG", fp |-> b])
    ELSE Raise("PIL.UnidentifiedImageError", "cannot identify image file")

(* get_image_from_base64(base64_str) *)
get_image_from_base64(base64_str) ==
    LET image_data == B64Decode(base64_str)
    IN  IF image_data.ok THEN ImageOpen(image_data.val) ELSE image_data

(* get_image_from_url(url), for one outcome of the network call *)
get_image_from_url(response) ==
    IF response.ok THEN ImageOpen(response.val.content) ELSE response

(* model.encode(image, convert_to_numpy=True): loads the pixel data and    *)
(* returns the embedding vector.                                           *)
ModelVector(fp) ==
    CASE fp = "pngA" -> <<1, 2, 2>>
      [] fp = "pngB" -> <<2, -2, -1>>
      [] fp = "pngC" -> <<2, 3, 6>>
      [] OTHER       -> <<0, 0, 0>>

ModelEncode(image) ==
    IF image.fp = "pngTruncated"
    THEN Raise("OSError", "image file is truncated")
    ELSE Ok(ModelVector(image.fp))

(* ------------------------- arithmetic ---------------------------------- *)

(* Floating-point values are kept as fixed-point numbers: a finite value is *)
(* val / SimScale; nan and the infinities are values of their own.         *)
SimScale == 10000000

Finite(v) == [kind |-> "finite", val |-> v]
NaN == [kind |-> "nan", val |-> 0]
Inf == [kind |-> "inf", val |-> 0]
NegInf == [kind |-> "-inf", val |-> 0]

(* n / d rounded to the nearest integer, ties to even; d > 0. *)
RoundHalfEven(n, d) ==
    LET q == n \div d
        r == n % d
    IN  IF 2 * r < d THEN q
        ELSE IF 2 * r > d THEN q + 1
        ELSE IF q % 2 = 0 THEN q ELSE q + 1

RECURSIVE DotFrom(_, _, _)
DotFrom(a, b, i) == IF i > Len(a) THEN 0 ELSE a[i] * b[i] + DotFrom(a, b, i + 1)

(* np.dot(a, b) *)
Dot(a, b) == DotFrom(a, b, 1)

ISqrt(n) == CHOOSE r \in 0..n : r * r <= n /\ n < (r + 1) * (r + 1)

(* np.linalg.norm(a) *)
Norm(a) == ISqrt(Dot(a, a))

(* Variant: the first norm taken twice. *)
NormProductFirstTwice(a, b) == Norm(a) * Norm(a)

(* The product of the two norms in the denominator of the similarity. *)
NormProduct(a, b) == Norm(a) * Norm(b)

(* Variant: a guarded division that answers 0 for a zero divisor. *)
FloatDivGuarded(num, den) ==
    IF den = 0 THEN Finite(0) ELSE Finite(RoundHalfEven(num * SimScale, den))

(* numpy scalar division: a zero divisor gives nan or an infinity (with a   *)
(* RuntimeWarning), it does not raise.                                      *)
FloatDiv(num, den) ==
    IF den = 0
    THEN IF num = 0 THEN NaN ELSE IF num > 0 THEN Inf ELSE NegInf
    ELSE Finite(RoundHalfEven(num * SimScale, den))

(* float(np.dot(emb1, emb2) / (np.linalg.norm(emb1) * np.linalg.norm(emb2))) *)
CosineSimilarity(a, b) == FloatDiv(Dot(a, b), NormProduct(a, b))

(* round(similarity * 100, 2), in hundredths of a percent *)
Percentage(similarity) ==
    IF similarity.kind = "finite"
    THEN Finite(RoundHalfEven(similarity.val, SimScale \div 10000))
    ELSE similarity

(* ------------------------- request bodies ------------------------------ *)

(* request.json: the parsed body, or an exception when the body is not JSON *)
NotJson == [type |-> "unparsable", val |-> None]
JsonNull == [type |-> "NoneType", val |-> None]
JsonObject(fields) == [type |-> "dict", val |-> fields]

RequestJson(body) ==
    IF body.type = "unparsable"
    THEN Raise("werkzeug.UnsupportedMediaType", "415 Unsupported Media Type")
    ELSE Ok(body)

(* key in d *)
In(key, d) ==
    IF d.type = "dict"
    THEN Ok(key \in DOMAIN d.val)
    ELSE Raise("TypeError", "argument of type 'NoneType' is not iterable")

EmbedFields ==
    {None}
    \cup {[image |-> s] : s \in Base64Strs}
    \cup {[imageUrl |-> u] : u \in Urls}
    \cup {[image |-> s, imageUrl |-> u] : s \in Base64Strs, u \in {"http://down", "http://c"}}

(* An image reference of /compare: {base64: ...}, {url: ...} or {}. *)
Refs == {[base64 |-> s] : s \in Base64Strs} \cup {[url |-> u] : u \in Urls} \cup {None}

CompareFields ==
    {None}
    \cup {[image1 |-> r] : r \in Refs}
    \cup {[image2 |-> r] : r \in Refs}
    \cup {[image1 |-> r, image2 |-> q] : r \in Refs, q \in Refs}

Requests ==
    {[endpoint |-> "/embed", body |-> b] :
        b \in {NotJson, JsonNull} \cup {JsonObject(f) : f \in EmbedFields}}
    \cup {[endpoint |-> "/compare", body |-> b] :
        b \in {NotJson, JsonNull} \cup {JsonObject(f) : f \in CompareFields}}
    \cup {[endpoint |-> "/health", body |-> NotJson]}

(* ------------------------- responses ----------------------------------- *)

Jsonify(payload, status) == [status |-> status, payload |-> payload]

(* except Exception as e: the classes the clause catches *)
ExceptionSubclasses ==
    {"werkzeug.UnsupportedMediaType", "TypeError", "KeyError", "binascii.Error",
     "PIL.UnidentifiedImageError", "requests.ConnectionError", "requests.Timeout", "OSError"}

(* Variant: except IOError, which leaves the other classes uncaught. *)
CaughtIOErrorOnly(x) ==
    x.cls \in {"OSError", "PIL.UnidentifiedImageError", "requests.ConnectionError", "requests.Timeout"}

Caught(x) == x.cls \in ExceptionSubclasses

(* Variant: an error response that also carries a default similarity. *)
ErrorResponseWithDefault(x) ==
    Jsonify([error |-> x.msg, similarity |-> Finite(0), percentage |-> Finite(0)], 500)

(* return jsonify({'error': str(e)}), 500 *)
ErrorResponse(x) == Jsonify([error |-> x.msg], 500)

Log(op, slot) == [op |-> op, slot |-> slot]

(* ------------------------- state machine ------------------------------- *)

Init ==
    /\ served = 0
    /\ req = None
    /\ pc = "idle"
    /\ data = None
    /\ img1 = None /\ img2 = None
    /\ emb1 = None /\ emb2 = None
    /\ resp = None
    /\ e = None
    /\ escaped = FALSE
    /\ steps = <<>>
    /\ prev = None

(* Variant: a failed resolution is attempted a second time. *)
AfterRaiseRetry(at) ==
    LET slot == IF at = "compare_img2" THEN 2 ELSE 1
    IN  IF /\ at \in {"embed_base64", "embed_url", "compare_img1", "compare_img2"}
           /\ \A i \in 1..Len(steps) : steps[i].slot # slot
        THEN at
        ELSE "done"

(* Where control goes when a statement of the try block raises. *)
AfterRaise(at) == "done"

(* A statement at position pc raised x: the except clause binds it to e and *)
(* answers; an exception the clause does not catch leaves the handler.      *)
Raised(x) ==
    /\ pc' = AfterRaise(pc)
    /\ IF Caught(x)
       THEN e' = x /\ resp' = ErrorResponse(x) /\ escaped' = escaped
       ELSE e' = e /\ resp' = resp /\ escaped' = TRUE

(* The exchange kept for comparing the two argument orders of /compare. *)
Exchange ==
    IF /\ pc = "done" /\ req.endpoint = "/compare" /\ resp # None /\ resp.status = 200
    THEN [image1 |-> data.val.image1, image2 |-> data.val.image2, resp |-> resp]
    ELSE prev

(* A request arrives and is routed to its view function. *)
Receive(r) ==
    /\ pc \in {"idle", "done"}
    /\ served < MaxRequests
    /\ served' = served + 1
    /\ req' = r
    /\ prev' = Exchange
    /\ pc' = CASE r.endpoint = "/embed"   -> "embed_json"
               [] r.endpoint = "/compare" -> "compare_json"
               [] OTHER                   -> "health"
    /\ data' = None /\ img1' = None /\ img2' = None /\ emb1' = None /\ emb2' = None
    /\ resp' = None /\ e' = None /\ escaped' = FALSE /\ steps' = <<>>

(* health() *)
Health ==
    /\ pc = "health"
    /\ resp' = Jsonify([status |-> "healthy", model |-> "clip-ViT-B-32"], 200)
    /\ pc' = "done"
    /\ UNCHANGED <<served, req, data, img1, img2, emb1, emb2, e, escaped, steps, prev>>

(* embed_image: data = request.json *)
EmbedJson ==
    /\ pc = "embed_json"
    /\ LET r == RequestJson(req.body)
       IN  IF r.ok
           THEN data' = r.val /\ pc' = "embed_select" /\ UNCHANGED <<resp, e, escaped>>
           ELSE data' = data /\ Raised(r)
    /\ UNCHANGED <<served, req, img1, img2, emb1, emb2, steps, prev>>

(* Variant: the two tests in the other order. *)
EmbedBranchUrlFirst(hasImage, hasImageUrl) ==
    IF hasImageUrl THEN "embed_url"
    ELSE IF hasImage THEN "embed_base64"
    ELSE "done"

(* The branch of embed_image's if / elif / else. *)
EmbedBranch(hasImage, hasImageUrl) ==
    IF hasImage THEN "embed_base64"
    ELSE IF hasImageUrl THEN "embed_url"
    ELSE "done"

(* embed_image: if 'image' in data / elif 'imageUrl' in data / else 400 *)
EmbedSelect ==
    /\ pc = "embed_select"
    /\ steps' = Append(steps, Log("check", 0))
    /\ LET hasImage == In("image", data)
           hasUrl == In("imageUrl", data)
       IN  IF ~hasImage.ok THEN Raised(hasImage)
           ELSE IF EmbedBranch(hasImage.val, hasUrl.val) # "done"
           THEN pc' = EmbedBranch(hasImage.val, hasUrl.val) /\ UNCHANGED <<resp, e, escaped>>
           ELSE /\ resp' = Jsonify([error |-> "No image provided"], 400)
                /\ pc' = "done"
                /\ UNCHANGED <<e, escaped>>
    /\ UNCHANGED <<served, req, data, img1, img2, emb1, emb2, prev>>

(* embed_image: image = get_image_from_base64(data['image']) *)
EmbedBase64 ==
    /\ pc = "embed_base64"
    /\ steps' = Append(steps, Log("b64decode", 1))
    /\ LET r == get_image_from_base64(data.val.image)
       IN  IF r.ok
           THEN img1' = r.val /\ pc' = "embed_encode" /\ UNCHANGED <<resp, e, escaped>>
           ELSE img1' = img1 /\ Raised(r)
    /\ UNCHANGED <<served, req, data, img2, emb1, emb2, prev>>

(* embed_image: image = get_image_from_url(data['imageUrl']) *)
EmbedUrl ==
    /\ pc = "embed_url"
    /\ steps' = Append(steps, Log("get", 1))
    /\ \E response \in RequestsGet(data.val.imageUrl) :
         LET r == get_image_from_url(response)
         IN  IF r.ok
             THEN img1' = r.val /\ pc' = "embed_encode" /\ UNCHANGED <<resp, e, escaped>>
             ELSE img1' = img1 /\ Raised(r)
    /\ UNCHANGED <<served, req, data, img2, emb1, emb2, prev>>

(* embed_image: embedding = model.encode(image); return jsonify({...}) *)
EmbedEncode ==
    /\ pc = "embed_encode"
    /\ steps' = Append(steps, Log("encode", 1))
    /\ LET r == ModelEncode(img1)
       IN  IF r.ok
           THEN /\ emb1' = r.val
                /\ resp' = Jsonify([embedding |-> r.val, dimension |-> Len(r.val)], 200)
                /\ pc' = "done"
                /\ UNCHANGED <<e, escaped>>
           ELSE emb1' = emb1 /\ Raised(r)
    /\ UNCHANGED <<served, req, data, img1, img2, emb2, prev>>

(* compare_images: data = request.json *)
CompareJson ==
    /\ pc = "compare_json"
    /\ LET r == RequestJson(req.body)
       IN  IF r.ok
           THEN data' = r.val /\ pc' = "compare_check" /\ UNCHANGED <<resp, e, escaped>>
           ELSE data' = data /\ Raised(r)
    /\ UNCHANGED <<served, req, img1, img2, emb1, emb2, steps, prev>>

(* compare_images: if 'image1' not in data or 'image2' not in data: 400 *)
CompareCheck ==
    /\ pc = "compare_check"
    /\ steps' = Append(steps, Log("check", 0))
    /\ LET has1 == In("image1", data)
           has2 == In("image2", data)
       IN  IF ~has1.ok THEN Raised(has1)
           ELSE IF ~has1.val \/ ~has2.val
           THEN /\ resp' = Jsonify([error |-> "Both images required"], 400)
                /\ pc' = "done"
                /\ UNCHANGED <<e, escaped>>
           ELSE pc' = "compare_img1" /\ UNCHANGED <<resp, e, escaped>>
    /\ UNCHANGED <<served, req, data, img1, img2, emb1, emb2, prev>>

(* The library call that resolving the reference ref starts with. *)
ResolveOp(ref) ==
    IF "base64" \in DOMAIN ref THEN "b64decode"
    ELSE IF "url" \in DOMAIN ref THEN "get"
    ELSE "subscript"

(* if 'base64' in ref: get_image_from_base64(ref['base64'])                 *)
(* else: get_image_from_url(ref['url'])                                     *)
ResolveOutcomes(ref) ==
    IF "base64" \in DOMAIN ref THEN {get_image_from_base64(ref.base64)}
    ELSE IF "url" \in DOMAIN ref
         THEN {get_image_from_url(response) : response \in RequestsGet(ref.url)}
         ELSE {Raise("KeyError", "'url'")}

(* Variant: each image encoded right after it is resolved. *)
CompareSuccessorInterleaved(at) ==
    CASE at = "compare_img1" -> "compare_emb1"
      [] at = "compare_emb1" -> "compare_img2"
      [] at = "compare_img2" -> "compare_emb2"
      [] at = "compare_emb2" -> "compare_sim"
      [] OTHER               -> "done"

(* The statement that follows each statement of compare_images. *)
CompareSuccessor(at) ==
    CASE at = "compare_img1" -> "compare_img2"
      [] at = "compare_img2" -> "compare_emb1"
      [] at = "compare_emb1" -> "compare_emb2"
      [] at = "compare_emb2" -> "compare_sim"
      [] OTHER               -> "done"

(* compare_images: img1 = ... *)
CompareImg1 ==
    /\ pc = "compare_img1"
    /\ steps' = Append(steps, Log(ResolveOp(data.val.image1), 1))
    /\ \E r \in ResolveOutcomes(data.val.image1) :
         IF r.ok
         THEN img1' = r.val /\ pc' = CompareSuccessor(pc) /\ UNCHANGED <<resp, e, escaped>>
         ELSE img1' = img1 /\ Raised(r)
    /\ UNCHANGED <<served, req, data, img2, emb1, emb2, prev>>

(* compare_images: img2 = ... *)
CompareImg2 ==
    /\ pc = "compare_img2"
    /\ steps' = Append(steps, Log(ResolveOp(data.val.image2), 2))
    /\ \E r \in ResolveOutcomes(data.val.image2) :
         IF r.ok
         THEN img2' = r.val /\ pc' = CompareSuccessor(pc) /\ UNCHANGED <<resp, e, escaped>>
         ELSE img2' = img2 /\ Raised(r)
    /\ UNCHANGED <<served, req, data, img1, emb1, emb2, prev>>

(* compare_images: emb1 = model.encode(img1, convert_to_numpy=True) *)
CompareEmb1 ==
    /\ pc = "compare_emb1"
    /\ steps' = Append(steps, Log("encode", 1))
    /\ LET r == ModelEncode(img1)
       IN  IF r.ok
           THEN emb1' = r.val /\ pc' = CompareSuccessor(pc) /\ UNCHANGED <<resp, e, escaped>>
           ELSE emb1' = emb1 /\ Raised(r)
    /\ UNCHANGED <<served, req, data, img1, img2, emb2, prev>>

(* compare_images: emb2 = model.encode(img2, convert_to_numpy=True) *)
CompareEmb2 ==
    /\ pc = "compare_emb2"
    /\ steps' = Append(steps, Log("encode", 2))
    /\ LET r == ModelEncode(img2)
       IN  IF r.ok
           THEN emb2' = r.val /\ pc' = CompareSuccessor(pc) /\ UNCHANGED <<resp, e, escaped>>
           ELSE emb2' = emb2 /\ Raised(r)
    /\ UNCHANGED <<served, req, data, img1, img2, emb1, prev>>

(* return jsonify({'similarity': similarity, 'percentage': round(...)}) *)
CompareResponse(similarity) ==
    Jsonify([similarity |-> similarity, percentage |-> Percentage(similarity)], 200)

(* compare_images: the similarity and the response *)
CompareSim ==
    /\ pc = "compare_sim"
    /\ steps' = Append(steps, Log("similarity", 0))
    /\ resp' = CompareResponse(CosineSimilarity(emb1, emb2))
    /\ pc' = CompareSuccessor(pc)
    /\ UNCHANGED <<served, req, data, img1, img2, emb1, emb2, e, escaped, prev>>

Next ==
    \/ \E r \in Requests : Receive(r)
    \/ Health
    \/ EmbedJson
    \/ EmbedSelect
    \/ EmbedBase64
    \/ EmbedUrl
    \/ EmbedEncode
    \/ CompareJson
    \/ CompareCheck
    \/ CompareImg1
    \/ CompareImg2
    \/ CompareEmb1
    \/ CompareEmb2
    \/ CompareSim

Spec == Init /\ [][Next]_vars

(* ------------------------- properties ---------------------------------- *)

Done(endpoint) == pc = "done" /\ req.endpoint = endpoint

(* The request body parsed as JSON and carries the field. *)
Carries(field) == req.body.type = "dict" /\ field \in DOMAIN req.body.val

Parsed == req.body.type # "unparsable"

NumberOf(op, slot) == Cardinality({i \in 1..Len(steps) : steps[i] = Log(op, slot)})

(* C1: every /embed request whose (JSON) body carries neither `image` nor  *)
(* `imageUrl` is answered 400 {error: "No image provided"}.                *)
C1_NeitherFieldIs400 ==
    (Done("/embed") /\ Parsed /\ ~Carries("image") /\ ~Carries("imageUrl"))
        => resp = Jsonify([error |-> "No image provided"], 400)

(* C2: every /compare request whose (JSON) body lacks image1 or image2 is  *)
(* answered 400 {error: "Both images required"}.                           *)
C2_MissingReferenceIs400 ==
    (Done("/compare") /\ Parsed /\ (~Carries("image1") \/ ~Carries("image2")))
        => resp = Jsonify([error |-> "Both images required"], 400)

(* C3: every failure raised while handling /embed or /compare is caught at *)
(* the request boundary and becomes one JSON response of status 500 whose  *)
(* error field is the failure's non-empty message; nothing escapes the     *)
(* handler, and a finished request has status 200, 400 or 500.             *)
C3_FailuresBecome500 ==
    /\ ~escaped
    /\ (pc = "done") <=> (resp # None)
    /\ pc = "done" => resp.status \in {200, 400, 500}
    /\ e # None => /\ pc = "done"
                   /\ e.msg # ""
                   /\ resp = Jsonify([error |-> e.msg], 500)
    /\ (pc = "done" /\ resp.status = 500) => e # None

C3_Witness ==
    /\ pc = "done" /\ e # None /\ resp.status = 500
    /\ e.cls = "requests.ConnectionError"

(* C4 as stated: /embed answers with success only a request that carries   *)
(* exactly one of `image` and `imageUrl`.                                  *)
C4_SuccessOnlyWithExactlyOne ==
    (Done("/embed") /\ resp.status = 200)
        => (Carries("image") /\ ~Carries("imageUrl")) \/ (~Carries("image") /\ Carries("imageUrl"))

(* C4 amended: /embed answers with success only a request that carries at  *)
(* least one of the two fields; a request carrying both is served from     *)
(* `image` alone, `imageUrl` is never fetched.                             *)
C4_SuccessOnlyWithAtLeastOne ==
    /\ (Done("/embed") /\ resp.status = 200) => (Carries("image") \/ Carries("imageUrl"))
    /\ (req # None /\ req.endpoint = "/embed" /\ Carries("image"))
          => /\ NumberOf("get", 1) = 0
             /\ img1 # None => ImageOpen(B64Decode(req.body.val.image).val) = Ok(img1)

C4_Witness ==
    /\ Done("/embed") /\ resp.status = 200
    /\ Carries("image") /\ Carries("imageUrl")

(* The fetch of url ends in a network error, a non-2xx answer or a body    *)
(* that is not an image.                                                   *)
FetchFails(url) ==
    \/ ~Reachable(url)
    \/ WebResponse(url).status_code \notin 200..299
    \/ WebResponse(url).content \notin ImageBytes

(* C5: when the fetch of a remote reference ends in a network error, a     *)
(* non-2xx answer or a non-image body, no image is produced and the        *)
(* request is answered 500, never with success.                            *)
C5_FailedFetchGivesError ==
    /\ (Done("/embed") /\ NumberOf("get", 1) = 1 /\ FetchFails(data.val.imageUrl))
          => img1 = None /\ resp.status = 500
    /\ (Done("/compare") /\ NumberOf("get", 1) = 1 /\ FetchFails(data.val.image1.url))
          => img1 = None /\ resp.status = 500
    /\ (Done("/compare") /\ NumberOf("get", 2) = 1 /\ FetchFails(data.val.image2.url))
          => img2 = None /\ resp.status = 500

ZeroNormCase ==
    /\ Done("/compare") /\ emb1 # None /\ emb2 # None
    /\ Norm(emb1) = 0 \/ Norm(emb2) = 0

(* C6 as stated: when one of the two embeddings has zero norm the division *)
(* raises, and /compare answers 500 and never 200 with a similarity.       *)
C6_ZeroNormIs500 ==
    ZeroNormCase => resp.status = 500 /\ "similarity" \notin DOMAIN resp.payload

(* C6 amended: when one of the two embeddings has zero norm the division   *)
(* raises nothing; /compare answers 200 with similarity and percentage     *)
(* both NaN, never 500 and never a finite similarity.                      *)
C6_ZeroNormIsNaN ==
    ZeroNormCase => e = None /\ resp = Jsonify([similarity |-> NaN, percentage |-> NaN], 200)

C6_Witness == ZeroNormCase /\ Norm(emb1) # 0

(* C7: /compare answers with similarity and percentage only when both      *)
(* images were resolved and both embeddings computed; when one of the four *)
(* steps failed the response has the error field alone (400 or 500).       *)
C7_NoPartialResult ==
    Done("/compare") =>
        IF img1 # None /\ img2 # None /\ emb1 # None /\ emb2 # None
        THEN resp.status = 200 /\ DOMAIN resp.payload = {"similarity", "percentage"}
        ELSE resp.status \in {400, 500} /\ DOMAIN resp.payload = {"error"}

C7_Witness ==
    /\ Done("/compare") /\ img1 # None /\ img2 # None /\ emb1 # None /\ emb2 = None
    /\ DOMAIN resp.payload = {"error"}

(* C8: nothing is retried: within a request each reference is fetched or   *)
(* decoded at most once, the model is invoked at most once per image, and  *)
(* a failed attempt ends the request.                                      *)
C8_NoRetry ==
    /\ \A slot \in {1, 2} :
          /\ NumberOf("get", slot) + NumberOf("b64decode", slot) + NumberOf("subscript", slot) <= 1
          /\ NumberOf("encode", slot) <= 1
    /\ (steps # <<>> /\ steps[Len(steps)].op \in {"get", "b64decode", "encode"}
          /\ (CASE steps[Len(steps)].op = "encode" ->
                      IF steps[Len(steps)].slot = 1 THEN emb1 = None ELSE emb2 = None
                [] OTHER ->
                      IF steps[Len(steps)].slot = 1 THEN img1 = None ELSE img2 = None))
          => pc = "done" /\ resp.status = 500

C8_Witness ==
    /\ Done("/compare") /\ resp.status = 500
    /\ NumberOf("get", 1) = 1 /\ NumberOf("get", 2) = 1 /\ img1 # None /\ img2 = None

(* C9: similarity is symmetric: when both references resolve and embed to  *)
(* non-zero vectors, /compare of (A, B) and of (B, A) answer the same      *)
(* similarity and the same percentage.                                     *)
SwappedPair ==
    /\ prev # None /\ Done("/compare") /\ resp.status = 200
    /\ data.val.image1 = prev.image2 /\ data.val.image2 = prev.image1
    /\ resp.payload.similarity.kind = "finite"
    /\ prev.resp.payload.similarity.kind = "finite"

C9_Symmetric ==
    SwappedPair =>
        /\ resp.payload.similarity = prev.resp.payload.similarity
        /\ resp.payload.percentage = prev.resp.payload.percentage
        /\ resp.payload.percentage = Percentage(resp.payload.similarity)

C9_Witness ==
    /\ SwappedPair
    /\ Norm(emb1) # Norm(emb2)
    /\ resp.payload.similarity.val \notin {0, SimScale}

(* C10: /compare runs presence check, resolution of image1, resolution of  *)
(* image2, encode of image1, encode of image2, similarity, in that order,  *)
(* and stops at the first step that fails.                                 *)
Rank(entry) ==
    CASE entry.op = "check"      -> 1
      [] entry.op = "similarity" -> 6
      [] entry.op = "encode"     -> 3 + entry.slot
      [] OTHER                   -> 1 + entry.slot

C10_FixedOrder ==
    (req # None /\ req.endpoint = "/compare") =>
        /\ \A i \in 1..Len(steps) : Rank(steps[i]) = i
        /\ (pc = "done" /\ resp.status = 400) => Len(steps) = 1
        /\ (pc = "done" /\ img1 = None) => Len(steps) <= 2
        /\ (NumberOf("encode", 1) + NumberOf("encode", 2) > 0) => (img1 # None /\ img2 # None)

C10_Witness ==
    /\ Done("/compare") /\ Len(steps) = 2 /\ img1 = None
    /\ steps[2] = Log("get", 1) /\ "url" \in DOMAIN data.val.image2

====
